---------------------------- MODULE Spec2Model ----------------------------
(***************************************************************************)
(* node-cgi: a per-request CGI runtime (cgiNode.js) and its .jss template  *)
(* handler (exec.js).  One process serves one request; the session         *)
(* directory, the template source and the compiled-template cache are      *)
(* files that outlive the process.                                         *)
(*                                                                         *)
(* Text is modelled as a sequence of tokens.  A template source is a       *)
(* sequence over "<?", "?>", the text tokens "A" and "NL" (a line break)   *)
(* and statement tokens, each standing for one JavaScript statement:       *)
(*   echoB    echo("B")                                                    *)
(*   header   header("X-Custom: 1")                                        *)
(*   exit     exit()                                                       *)
(*   exitNum  exit(42)                                                     *)
(*   throwErr throw new Error("<b>")                                       *)
(*   throwStr throw "<b>"                                                  *)
(*   inc      _SESSION.visits = (_SESSION.visits || 0) + 1                 *)
(*   setNaN   _SESSION.x = NaN                                             *)
(*   setTimeout  setTimeout(() => {}, 0)                                   *)
(*   incIf    if (_GET.inc) _SESSION.visits = (_SESSION.visits || 0) + 1   *)
(* Any other token inside <? ?> does not parse as JavaScript.              *)
(***************************************************************************)
EXTENDS Integers, Sequences, FiniteSets, TLC

\* ------------------------------------------------------------------ bounds
\* Statements inside the code block of a template of the request model.
MaxStmts == 2
\* Requests served one after the other in one behaviour.
MaxRequests == 2
\* Tokens of a template source in the compiler/executor model.
MaxSrcLen == 4
\* Characters of a source path in the model of cache file names.
MaxPathLen == 3
\* Calls of header and echo by a program that uses the module directly.
MaxCalls == 3
\* Parts of a multipart form, pairs of a urlencoded form.
MaxParts == 2
MaxPairs == 2
\* Largest value of the file-system clock in the cache model.
MaxClock == 3
\* Requests (cache lookups) of one behaviour of the cache model.
MaxLookups == 3

VARIABLES
    \* files that outlive a request
    sessFiles,      \* session id -> [exists, data]: sessions/session_<id>.json
    srcFile,        \* [content, mtime]: the .jss source
    cacheFile,      \* [exists, content, mtime]: jss_cache/<key>.cache.js
    clock,          \* current time of the file system
    \* the process serving the current request
    pc,             \* "idle", "entry", "run", "catchInner", "catchOuter",
                    \* "uncaught", "terminated"
    env,            \* request input: execution mode, debug flag, cookie, path
    sessionId, session,
    headersSent, headerBuffer, bodyBuffer,
    stdout,         \* the chunks written to process.stdout, in order
    fullScript,     \* the script text: tokens, line breaks included
    ip,             \* index of the next token of fullScript to execute
    output,         \* the text appended by the script's echo
    useCache,
    err,            \* the exception in flight
    \* history
    reqNo,          \* requests started so far
    saveCount,      \* times saveSession wrote in this process
    exitCalls,      \* calls of exit in this process
    lateHeaders,    \* calls of header made after the separator was written
    lateExit,       \* what calls of exit after the first added: [writes, saves]
    executed,       \* indices of fullScript executed, in order
    failure,        \* "none", "runtime", "syntax", "missing"
    how,            \* which call of exit ended the process
    prev,           \* the request that ended last: [id, session, cookie]
    lookups,        \* the last cache lookup: [done, script, modified]
    \* the body of a POST request
    req,            \* [method, contentType, contentLength, form]
    stdin,          \* [chunks, ended]: what process.stdin has yet to deliver
    chunks,         \* the bytes received so far (Buffer.concat(chunks))
    received,
    callbacks,      \* times the callback given to readBody was called
    _POST, _FILES,
    uploads,        \* storage path -> bytes: the files of uploads/
    written,        \* the upload writes so far, in order: [path, part]
    timers,         \* callbacks scheduled with setTimeout, not yet run
    \* requests served by concurrent processes
    procs,          \* process -> its state
    hist,           \* history of the concurrent run
    \* several sources in one cache directory
    jssPaths,       \* the source paths requested
    cacheDir,       \* cache file name -> [exists, content, mtime]
    served          \* the last lookup: [path, script]

fsVars   == <<sessFiles, srcFile, cacheFile, clock>>
respVars == <<sessionId, session, headersSent, headerBuffer, bodyBuffer, stdout,
              saveCount, exitCalls, lateHeaders, lateExit>>
runVars  == <<fullScript, ip, output, useCache, err, executed, failure, how>>
runVarsButHow == <<fullScript, ip, output, useCache, err, executed, failure>>
bodyVars == <<req, stdin, chunks, received, callbacks, _POST, _FILES, uploads, written>>
raceVars == <<procs, hist>>
keyVars  == <<jssPaths, cacheDir, served>>
extVars  == <<bodyVars, timers, raceVars, keyVars>>
vars     == <<fsVars, pc, env, respVars, runVars, reqNo, prev, lookups, extVars>>

\* ------------------------------------------------------------------ tokens
OPEN  == "<?"
CLOSE == "?>"
NL    == "NL"

Stmts      == {"echoB", "header", "exit", "exitNum", "throwErr", "throwStr",
               "inc", "setNaN"}
TextTokens == {"A", NL}
\* setTimeout(() => {}, 0)
TimerStmts == {"setTimeout"}
\* a statement that reads the query string
QueryStmts == {"incIf"}

Min(S) == CHOOSE x \in S : \A y \in S : x <= y

RECURSIVE SeqsUpTo(_, _)
SeqsUpTo(S, n) ==
    IF n = 0 THEN {<<>>}
    ELSE LET shorter == SeqsUpTo(S, n - 1)
         IN shorter \cup {Append(s, x) : s \in {t \in shorter : Len(t) = n - 1}, x \in S}

RECURSIVE Flatten(_)
Flatten(ss) == IF ss = <<>> THEN <<>> ELSE Head(ss) \o Flatten(Tail(ss))

\* ------------------------------------------------------- html_escape, JSON
\* html_escape: the five special characters become entities, one pass.
EscapeChar(c) ==
    CASE c = "&" -> "&amp;"
      [] c = "<" -> "&lt;"
      [] c = ">" -> "&gt;"
      [] c = "\"" -> "&quot;"
      [] c = "'" -> "&#039;"
      [] c = OPEN -> "&lt;?"
      [] c = CLOSE -> "?&gt;"
      [] OTHER -> c

html_escape(str) == [i \in 1..Len(str) |-> EscapeChar(str[i])]

\* JSON.stringify of a string and the evaluation of the resulting literal:
\* a line break becomes the two-character escape and back.
JsonEscape(text)   == [i \in 1..Len(text) |-> IF text[i] = NL THEN "\\n" ELSE text[i]]
JsonUnescape(text) == [i \in 1..Len(text) |-> IF text[i] = "\\n" THEN NL ELSE text[i]]

\* _SESSION is modelled by two keys: visits (0: not set) and x
\* ("absent", "NaN", "null").
EmptySession == [visits |-> 0, x |-> "absent"]

\* JSON.stringify(_SESSION): NaN is written as null.
JsonStringify(s) ==
    (IF s.visits > 0 THEN <<[key |-> "visits", val |-> [t |-> "num", n |-> s.visits]]>>
     ELSE <<>>)
    \o (IF s.x # "absent" THEN <<[key |-> "x", val |-> [t |-> "null", n |-> 0]]>>
        ELSE <<>>)

\* The bytes left in a session file behind a shorter text written over a
\* longer one.
Torn(n) == [key |-> "torn", val |-> [t |-> "bytes", n |-> n]]

\* The length in bytes of the text of a session file.
RECURSIVE EntryBytes(_)
EntryBytes(data) ==
    IF data = <<>> THEN 0
    ELSE (CASE Head(data).key = "visits" -> 10
            [] Head(data).key = "x" -> 8
            [] OTHER -> Head(data).val.n)
         + EntryBytes(Tail(data))

JsonBytes(data) ==
    LET pairs == Cardinality({i \in 1..Len(data) : data[i].key # "torn"})
    IN 2 + EntryBytes(data) + (IF pairs > 1 THEN pairs - 1 ELSE 0)

\* JSON.parse(data) does not throw.
JsonValid(data) == \A i \in 1..Len(data) : data[i].key # "torn"

\* Object.assign(_SESSION, JSON.parse(data)) on the empty _SESSION.
JsonParseInto(s, data) ==
    LET vs == {i \in 1..Len(data) : data[i].key = "visits"}
        xs == {i \in 1..Len(data) : data[i].key = "x"}
    IN [visits |-> IF vs = {} THEN s.visits ELSE data[Min(vs)].val.n,
        x      |-> IF xs = {} THEN s.x ELSE "null"]


\* ------------------------------------------------------ template compiler
\* String.prototype.trim on code text: white space at both ends is dropped.
RECURSIVE TrimLeft(_)
TrimLeft(s) == IF s # <<>> /\ Head(s) = NL THEN TrimLeft(Tail(s)) ELSE s

RECURSIVE TrimRight(_)
TrimRight(s) ==
    IF s # <<>> /\ s[Len(s)] = NL THEN TrimRight(SubSeq(s, 1, Len(s) - 1)) ELSE s

Trim(s) == TrimRight(TrimLeft(s))

\* The first index >= from of token x in s, 0 when there is none.
IndexFrom(s, x, from) ==
    LET I == {i \in from..Len(s) : s[i] = x}
    IN IF I = {} THEN 0 ELSE Min(I)

NewLine == [k |-> "nl", v |-> <<>>]

\* blocks.push(`echo(${JSON.stringify(html)});`): one line of script.
EchoBlock(html) == <<[k |-> "lit", v |-> JsonEscape(html)]>>

\* blocks.push(match[1].trim()): the code text as it stands.
CodeBlock(code) ==
    [i \in 1..Len(code) |->
        IF code[i] = NL THEN NewLine ELSE [k |-> "code", v |-> <<code[i]>>]]

\* The loop of parseJSSBlocks from position lastIndex (1-based) on: the
\* regular expression /<\?(.*?)\?>/gs matches the next "<?" that has a "?>"
\* after it, up to the first such "?>".
RECURSIVE ParseFrom(_, _)
ParseFrom(content, lastIndex) ==
    LET i == IndexFrom(content, OPEN, lastIndex)
        j == IF i = 0 THEN 0 ELSE IndexFrom(content, CLOSE, i + 1)
    IN IF j = 0
       THEN LET rest == SubSeq(content, lastIndex, Len(content))
            IN IF rest # <<>> THEN <<EchoBlock(rest)>> ELSE <<>>
       ELSE LET html == SubSeq(content, lastIndex, i - 1)
                code == Trim(SubSeq(content, i + 1, j - 1))
            IN (IF html # <<>> THEN <<EchoBlock(html)>> ELSE <<>>)
               \o <<CodeBlock(code)>>
               \o ParseFrom(content, j + 1)

\* Variant of the loop that pushes the code block before the text in front
\* of it.
RECURSIVE ParseFromSwapped(_, _)
ParseFromSwapped(content, lastIndex) ==
    LET i == IndexFrom(content, OPEN, lastIndex)
        j == IF i = 0 THEN 0 ELSE IndexFrom(content, CLOSE, i + 1)
    IN IF j = 0
       THEN LET rest == SubSeq(content, lastIndex, Len(content))
            IN IF rest # <<>> THEN <<EchoBlock(rest)>> ELSE <<>>
       ELSE LET html == SubSeq(content, lastIndex, i - 1)
                code == Trim(SubSeq(content, i + 1, j - 1))
            IN <<CodeBlock(code)>>
               \o (IF html # <<>> THEN <<EchoBlock(html)>> ELSE <<>>)
               \o ParseFromSwapped(content, j + 1)

parseJSSBlocksSwapped(content) == ParseFromSwapped(content, 1)

parseJSSBlocks(content) == ParseFrom(content, 1)

\* blocks.join('\n')
RECURSIVE JoinLines(_)
JoinLines(blocks) ==
    IF blocks = <<>> THEN <<>>
    ELSE IF Len(blocks) = 1 THEN Head(blocks)
    ELSE Head(blocks) \o <<NewLine>> \o JoinLines(Tail(blocks))

Compile(content) == JoinLines(parseJSSBlocks(content))

\* new vm.Script(fullScript) / eval(fullScript): the script parses when every
\* code token is a statement.
SyntaxOK(script) ==
    \A i \in 1..Len(script) : script[i].k = "code" => script[i].v[1] \in Stmts \cup TimerStmts \cup QueryStmts

\* The 1-based line of the token at index i of the script.
LineOf(script, i) ==
    1 + Cardinality({j \in 1..(i - 1) : script[j].k = "nl"})

LineCount(script) == LineOf(script, Len(script) + 1)

\* The text of a script token as it appears in the script.
TokenText(tok) ==
    IF tok.k = "lit" THEN <<"echo(">> \o tok.v \o <<");">> ELSE tok.v

\* fullScript.split('\n')[ln - 1]
LineText(script, ln) ==
    Flatten([i \in 1..Cardinality({j \in 1..Len(script) : LineOf(script, j) = ln
                                                          /\ script[j].k # "nl"})
             |-> LET idx == {j \in 1..Len(script) : LineOf(script, j) = ln
                                                    /\ script[j].k # "nl"}
                     nth == CHOOSE j \in idx : Cardinality({m \in idx : m < j}) = i - 1
                 IN TokenText(script[nth])])

\* The numbered listing of the error report; errorLine 0 flags no line.
Numbered(script, errorLine) ==
    [ln \in 1..LineCount(script) |->
        [ln |-> ln, highlight |-> (ln = errorLine),
         text |-> html_escape(LineText(script, ln))]]


\* ------------------------------------------------- response builder, session
\* Session identifiers.  generateSessionId joins a random and a time part;
\* the identifiers it can return are modelled as <<"g", i>>, and <<"c", 1>> is
\* an identifier only a client can choose.  NoId is the absent value.
NoId       == <<>>
GenIds     == {<<"g", i>> : i \in 1..MaxRequests}
ForeignIds == {<<"c", 1>>}
Ids        == GenIds \cup ForeignIds
NoFile     == [exists |-> FALSE, data |-> <<>>]

\* The HTTP_COOKIE values a request may carry: none, the session cookie with
\* any identifier, the session cookie with an empty value.
CookieHeaders ==
    {<<>>} \cup {<<[key |-> "PHPSESSID", value |-> id]>> : id \in Ids \cup {NoId}}

\* parseCookies().PHPSESSID: the value of the last well-formed pair of that
\* key, NoId when there is none.
parseCookies(cookieStr) ==
    LET ok == {i \in 1..Len(cookieStr) : /\ cookieStr[i].key = "PHPSESSID"
                                         /\ cookieStr[i].value # NoId}
    IN IF ok = {} THEN NoId
       ELSE cookieStr[CHOOSE i \in ok : \A j \in ok : j <= i].value

\* Header lines.  crlf tells whether the text ends with "\r\n".
SetCookie(id)  == [name |-> "Set-Cookie", value |-> <<"PHPSESSID", id>>, crlf |-> FALSE]
ContentType    == [name |-> "Content-Type", value |-> <<"text/html">>, crlf |-> FALSE]
Status500      == [name |-> "Status", value |-> <<"500 Internal Server Error">>, crlf |-> FALSE]
CustomHeader   == [name |-> "X-Custom", value |-> <<"1">>, crlf |-> FALSE]
HeaderArgs     == {ContentType, Status500, CustomHeader, [CustomHeader EXCEPT !.crlf = TRUE]}

\* The state of the process that header, echo, exit and saveSession act on.
Proc ==
    [sessFiles |-> sessFiles, sessionId |-> sessionId, session |-> session,
     headersSent |-> headersSent, headerBuffer |-> headerBuffer,
     bodyBuffer |-> bodyBuffer, stdout |-> stdout, saveCount |-> saveCount,
     exitCalls |-> exitCalls, lateHeaders |-> lateHeaders, lateExit |-> lateExit,
     status |-> "running"]

NewProc ==
    [sessFiles |-> sessFiles, sessionId |-> NoId, session |-> EmptySession,
     headersSent |-> FALSE, headerBuffer |-> <<>>, bodyBuffer |-> <<>>,
     stdout |-> <<>>, saveCount |-> 0, exitCalls |-> 0,
     lateHeaders |-> [calls |-> 0, changed |-> 0],
     lateExit |-> [writes |-> 0, saves |-> 0], status |-> "running"]

SetProc(r) ==
    /\ sessFiles' = r.sessFiles
    /\ sessionId' = r.sessionId
    /\ session' = r.session
    /\ headersSent' = r.headersSent
    /\ headerBuffer' = r.headerBuffer
    /\ bodyBuffer' = r.bodyBuffer
    /\ stdout' = r.stdout
    /\ saveCount' = r.saveCount
    /\ exitCalls' = r.exitCalls
    /\ lateHeaders' = r.lateHeaders
    /\ lateExit' = r.lateExit

\* The response state proper.
RespState(r) ==
    [headersSent |-> r.headersSent, headerBuffer |-> r.headerBuffer,
     bodyBuffer |-> r.bodyBuffer]

\* Variant of header without the sent check.
headerUnguarded(r, str) ==
    [r EXCEPT !.headerBuffer = Append(@, [str EXCEPT !.crlf = TRUE])]

header(r, str) ==
    IF r.headersSent THEN r
    ELSE [r EXCEPT !.headerBuffer = Append(@, [str EXCEPT !.crlf = TRUE])]

\* A call of header, with its history.
CallHeader(r, str) ==
    LET h == header(r, str)
    IN [h EXCEPT !.lateHeaders =
           IF r.headersSent
           THEN [calls |-> @.calls + 1,
                 changed |-> @.changed + (IF RespState(h) = RespState(r) THEN 0 ELSE 1)]
           ELSE @]

echo(r, str) == [r EXCEPT !.bodyBuffer = @ \o str]

\* Variant of saveSession that writes the session as it was loaded empty.
saveSessionEmpty(r) ==
    IF r.sessionId = NoId THEN r
    ELSE [r EXCEPT !.sessFiles[r.sessionId] =
                       [exists |-> TRUE, data |-> JsonStringify(EmptySession)],
                   !.saveCount = @ + 1]

saveSession(r) ==
    IF r.sessionId = NoId THEN r
    ELSE [r EXCEPT !.sessFiles[r.sessionId] =
                       [exists |-> TRUE, data |-> JsonStringify(r.session)],
                   !.saveCount = @ + 1]

\* The values exit may be given: text (a string, <<>> is ''), a page (a
\* non-empty string built by an error handler), a number.
Text(str)    == [k |-> "text", v |-> str]
Number42     == [k |-> "num", v |-> <<"42">>]
IsTruthy(m)  == ~(m.k = "text" /\ m.v = <<>>)
IsString(m)  == m.k \in {"text", "page"}

Sep == [k |-> "sep", v |-> <<>>]
HeaderBlock(buf) == [i \in 1..Len(buf) |-> [k |-> "hdr", v |-> buf[i]]]

\* Variant of exit that saves the session before it writes msg.
exitSavesFirst(r, msg) ==
    LET r1 == IF ~r.headersSent
              THEN [r EXCEPT !.stdout = @ \o HeaderBlock(r.headerBuffer) \o <<Sep>>,
                             !.headersSent = TRUE]
              ELSE r
        r2 == saveSession(r1)
    IN IF IsTruthy(msg) /\ ~IsString(msg)
       THEN [r2 EXCEPT !.status = "threw"]
       ELSE LET r3 == IF IsTruthy(msg) THEN [r2 EXCEPT !.stdout = Append(@, msg)] ELSE r2
                r4 == IF r3.bodyBuffer # <<>>
                      THEN [r3 EXCEPT !.stdout = Append(@, Text(r3.bodyBuffer))]
                      ELSE r3
            IN [r4 EXCEPT !.status = "exited"]

\* exit(msg).  process.stdout.write throws a TypeError for a chunk that is
\* neither a string nor a buffer: status "threw" leaves exit there.
\* process.exit(0) ends the process: status "exited".
exit(r, msg) ==
    LET r1 == IF ~r.headersSent
              THEN [r EXCEPT !.stdout = @ \o HeaderBlock(r.headerBuffer) \o <<Sep>>,
                             !.headersSent = TRUE]
              ELSE r
    IN IF IsTruthy(msg) /\ ~IsString(msg)
       THEN [r1 EXCEPT !.status = "threw"]
       ELSE LET r2 == IF IsTruthy(msg) THEN [r1 EXCEPT !.stdout = Append(@, msg)] ELSE r1
                r3 == IF r2.bodyBuffer # <<>>
                      THEN [r2 EXCEPT !.stdout = Append(@, Text(r2.bodyBuffer))]
                      ELSE r2
            IN [saveSession(r3) EXCEPT !.status = "exited"]

\* A call of exit, with its history.
CallExit(r, msg) ==
    LET e == exit(r, msg)
    IN [e EXCEPT !.exitCalls = @ + 1,
                 !.lateExit = IF r.exitCalls >= 1
                              THEN [writes |-> @.writes + Len(e.stdout) - Len(r.stdout),
                                    saves |-> @.saves + e.saveCount - r.saveCount]
                              ELSE @]

generateSessionId(files) == {id \in GenIds : ~files[id].exists}

\* loadSession with gen the identifier generateSessionId would return.
loadSession(r, cookieStr, gen) ==
    LET c    == parseCookies(cookieStr)
        sid  == IF c # NoId THEN c ELSE gen
        file == r.sessFiles[sid]
        r1   == [r EXCEPT !.sessionId = sid,
                          !.session = IF file.exists /\ JsonValid(file.data)
                                      THEN JsonParseInto(@, file.data)
                                      ELSE @]
    IN CallHeader(r1, SetCookie(sid))


\* ------------------------------------------------------------ error values
NoErr == [kind |-> "none", message |-> <<>>, line |-> 0]
\* An Error object: it has a message and a stack; line is the script line its
\* stack names, 0 when it names none.
ErrorAt(msg, line) == [kind |-> "Error", message |-> msg, line |-> line]
\* A thrown string: its message and stack properties are undefined.
ThrownString == [kind |-> "string", message |-> <<>>, line |-> 0]

Boom == <<"<", "b", ">">>

\* e.stack of an Error
StackOf(e) == <<"Error: ">> \o e.message \o <<"    at ">>

\* The exit arguments the error handlers build.
ReportPage(e, script, errorLine) ==
    [k |-> "page", kind |-> "report", message |-> html_escape(e.message),
     stack |-> html_escape(StackOf(e)), numbered |-> Numbered(script, errorLine)]
ExecErrorPage(e) ==
    [k |-> "page", kind |-> "execError", message |-> html_escape(e.message),
     stack |-> <<>>, numbered |-> <<>>]
PrePage(e) ==
    [k |-> "page", kind |-> "pre", message |-> <<>>,
     stack |-> html_escape(StackOf(e)), numbered |-> <<>>]
\* Variant of the fatal page with the stack as it is.
FatalPageRaw(e) ==
    [k |-> "page", kind |-> "fatal", message |-> <<>>,
     stack |-> StackOf(e), numbered |-> <<>>]

FatalPage(e) ==
    [k |-> "page", kind |-> "fatal", message |-> <<>>,
     stack |-> html_escape(StackOf(e)), numbered |-> <<>>]

\* --------------------------------------------------------------- the cache
NoCache == [exists |-> FALSE, content |-> <<>>, mtime |-> 0]

\* Variant of CacheGet that takes an entry of the source's own time as stale.
CacheGetStrict(src, cache, now) ==
    IF cache.exists /\ cache.mtime > src.mtime
    THEN [script |-> cache.content, useCache |-> TRUE, cache |-> cache]
    ELSE LET script == Compile(src.content)
         IN [script |-> script, useCache |-> FALSE,
             cache |-> [exists |-> TRUE, content |-> script, mtime |-> now]]

\* evaluateJSSwithCache up to the script text: the cache entry is used when
\* it exists and is not older than the source; otherwise the source is
\* compiled and the entry written, which stamps it with the current time.
CacheGet(src, cache, now) ==
    IF cache.exists /\ cache.mtime >= src.mtime
    THEN [script |-> cache.content, useCache |-> TRUE, cache |-> cache]
    ELSE LET script == Compile(src.content)
         IN [script |-> script, useCache |-> FALSE,
             cache |-> [exists |-> TRUE, content |-> script, mtime |-> now]]

\* ---------------------------------------------------------- request body
\* A body is a sequence of byte tokens.  Multipart bodies are built from
\*   BD    the bytes of "--" + boundary (boundaryBuffer), DASH, CR, LF,
\*   CD    the text "Content-Disposition: form-data; ",
\*   name="a", filename="t", ... the parameters of that header line,
\*   CT    the header line "Content-Type: text/plain",
\*   "x", "0"  a text byte and a non-text byte of content.
\* Urlencoded bodies are built from "a", "b", "1", "2", "=" and "&".
BD   == "--B"
DASH == "-"
CR   == "CR"
LF   == "LF"
CD   == "Content-Disposition: form-data; "
CT   == "Content-Type: text/plain"

boundaryBuffer == <<BD>>
sep == <<CR, LF, CR, LF>>

Undefined == "undefined"
\* A file name longer than the file system allows; it starts with "<".
LongName == "<..."

FieldNames == {"a", "b"}
FileNames  == {"t", "d/t", LongName}

NameParam(n) == CASE n = "a" -> "name=\"a\"" [] n = "b" -> "name=\"b\""
FilenameParam(f) ==
    CASE f = "t" -> "filename=\"t\""
      [] f = "d/t" -> "filename=\"d/t\""
      [] f = LongName -> "filename=\"<...\""
      [] f = "" -> "filename=\"\""

\* rawHeaders.match(/name="([^"]+)"/) on one token: the pattern is also found
\* inside filename="...", unless that value is empty.
NameIn(tok) ==
    CASE tok = "name=\"a\"" -> "a"
      [] tok = "name=\"b\"" -> "b"
      [] tok = "filename=\"t\"" -> "t"
      [] tok = "filename=\"d/t\"" -> "d/t"
      [] tok = "filename=\"<...\"" -> LongName
      [] OTHER -> Undefined

\* rawHeaders.match(/filename="([^"]*)"/) on one token.
FilenameIn(tok) ==
    CASE tok = "filename=\"t\"" -> "t"
      [] tok = "filename=\"d/t\"" -> "d/t"
      [] tok = "filename=\"<...\"" -> LongName
      [] tok = "filename=\"\"" -> ""
      [] OTHER -> Undefined

\* The first match of a pattern in the header text, given what the pattern
\* finds at each token.
FirstMatch(found) ==
    LET I == {i \in 1..Len(found) : found[i] # Undefined}
    IN IF I = {} THEN Undefined ELSE found[Min(I)]

\* path.basename(filename)
Basename(f) == IF f = "d/t" THEN "t" ELSE f

\* buffer.indexOf(pattern, from): 0-based, -1 when there is none.
IndexOf(buffer, pattern, from) ==
    LET I == {i \in from..(Len(buffer) - Len(pattern)) :
                 SubSeq(buffer, i + 1, i + Len(pattern)) = pattern}
    IN IF I = {} THEN -1 ELSE Min(I)

\* buffer.slice(start, end) for start, end >= 0.
Slice(buffer, start, end) ==
    SubSeq(buffer, start + 1, IF end > Len(buffer) THEN Len(buffer) ELSE end)

\* obj[key] = value
Put(obj, key, value) ==
    [k \in DOMAIN obj \cup {key} |-> IF k = key THEN value ELSE obj[k]]

EmptyObject == <<>>
String(v) == [t |-> "string", v |-> v]
Array(v)  == [t |-> "array", v |-> v]

\* The first loop of parseMultipartBody: the parts between boundaries.
RECURSIVE PartsFrom(_, _)
PartsFrom(buffer, start) ==
    IF start >= Len(buffer) THEN <<>>
    ELSE LET nextBoundary == IndexOf(buffer, boundaryBuffer, start)
         IN IF nextBoundary = -1 THEN <<>>
            ELSE <<Slice(buffer, start, nextBoundary - 2)>>
                 \o PartsFrom(buffer, nextBoundary + Len(boundaryBuffer) + 2)

\* fs.writeFileSync(tmpPath, content) fails for a name that is too long; the
\* error message quotes the path.
UploadError == ErrorAt(<<"ENAMETOOLONG: name too long, open ", "<", "...">>, 0)

\* The second loop of parseMultipartBody from part i on.  st holds _POST,
\* _FILES, the uploads directory, the log of writes and the error thrown;
\* times[i] is the value of Date.now() while part i is handled.
RECURSIVE PartsLoop(_, _, _, _)
PartsLoop(st, parts, i, times) ==
    IF i > Len(parts) \/ st.thrown # NoErr THEN st
    ELSE LET part == parts[i]
             headerEnd == IndexOf(part, sep, 0)
             rawHeaders == Slice(part, 0, headerEnd)
             content == Slice(part, headerEnd + Len(sep), Len(part))
             name == FirstMatch([n \in 1..Len(rawHeaders) |-> NameIn(rawHeaders[n])])
             filename == FirstMatch([n \in 1..Len(rawHeaders) |-> FilenameIn(rawHeaders[n])])
             contentType == IF \E j \in 1..Len(rawHeaders) : rawHeaders[j] = CT
                            THEN "text/plain" ELSE Undefined
             safeFilename == Basename(filename)
             tmpPath == <<times[i], safeFilename>>
             st1 == IF headerEnd = -1 THEN st
                    ELSE IF filename # Undefined /\ filename # ""
                    THEN IF safeFilename = LongName
                         THEN [st EXCEPT !.thrown = UploadError]
                         ELSE [st EXCEPT
                                 !.uploads = Put(@, tmpPath, content),
                                 !.written = Append(@, [path |-> tmpPath, part |-> i]),
                                 !.files = Put(@, name,
                                     [name |-> safeFilename, type |-> contentType,
                                      size |-> Len(content), tmp_name |-> tmpPath,
                                      error |-> 0])]
                    ELSE IF name # Undefined
                    THEN [st EXCEPT !.post = Put(@, name, String(content))]
                    ELSE st
         IN PartsLoop(st1, parts, i + 1, times)

parseMultipartBody(st, buffer, times) ==
    LET start == IndexOf(buffer, boundaryBuffer, 0) + Len(boundaryBuffer) + 2
    IN PartsLoop(st, PartsFrom(buffer, start), 1, times)

\* str.split(x): the pieces of s between occurrences of token x.
RECURSIVE Split(_, _)
Split(s, x) ==
    LET i == IndexOf(s, <<x>>, 0)
    IN IF i = -1 THEN <<s>>
       ELSE <<Slice(s, 0, i)>> \o Split(Slice(s, i + 1, Len(s)), x)

\* querystring.parse(body): pairs are split at "&" and at the first "=", an
\* empty pair is skipped, and a key that occurs again collects its values in
\* an array.
RECURSIVE QsAdd(_, _, _)
QsAdd(obj, pairs, i) ==
    IF i > Len(pairs) THEN obj
    ELSE LET pair == pairs[i]
             eq  == IndexOf(pair, <<"=">>, 0)
             key == IF eq = -1 THEN pair ELSE Slice(pair, 0, eq)
             val == IF eq = -1 THEN <<>> ELSE Slice(pair, eq + 1, Len(pair))
             obj1 == IF pair = <<>> THEN obj
                     ELSE IF key \notin DOMAIN obj THEN Put(obj, key, String(val))
                     ELSE IF obj[key].t = "array"
                     THEN Put(obj, key, Array(Append(obj[key].v, val)))
                     ELSE Put(obj, key, Array(<<obj[key].v, val>>))
         IN QsAdd(obj1, pairs, i + 1)

querystring_parse(body) == QsAdd(EmptyObject, Split(body, "&"), 1)

\* parseUrlEncodedBody: every key of the parsed object is assigned to _POST.
parseUrlEncodedBody(st, buffer) ==
    LET parsed == querystring_parse(buffer)
    IN [st EXCEPT !.post = [k \in DOMAIN @ \cup DOMAIN parsed |->
                               IF k \in DOMAIN parsed THEN parsed[k] ELSE @[k]]]

\* The body a client sends for a form: a sequence of parts
\* [name, file, filename, content], each after a boundary line, and the
\* closing boundary line.
EncodePart(p) ==
    <<BD, CR, LF, CD, NameParam(p.name)>>
    \o (IF p.file THEN <<FilenameParam(p.filename), CR, LF, CT>> ELSE <<>>)
    \o sep \o p.content \o <<CR, LF>>

EncodeForm(form) ==
    Flatten([i \in 1..Len(form) |-> EncodePart(form[i])]) \o <<BD, DASH, DASH, CR, LF>>

\* The urlencoded body of a sequence of pairs <<key, value>>.
RECURSIVE EncodePairs(_)
EncodePairs(pairs) ==
    IF pairs = <<>> THEN <<>>
    ELSE <<pairs[1][1], "=", pairs[1][2]>>
         \o (IF Len(pairs) > 1 THEN <<"&">> \o EncodePairs(Tail(pairs)) ELSE <<>>)

\* ------------------------------------------------------------- the request
Modes == {"direct", "isolated", "cached"}

\* The process ends: process.exit(0) inside exit.
Terminate(r, by) ==
    /\ SetProc(r)
    /\ pc' = "terminated"
    /\ how' = by
    /\ prev' = [id |-> r.sessionId, session |-> r.session, cookie |-> env.cookie]

\* parse(): populateServerVars, loadSession, parseGetVars, and readBody of a
\* GET request, which calls back at once.  A new process starts with the
\* module's initial values.
StartRequest(mode, debug, cookie, path, limit) ==
    /\ pc \in {"idle", "terminated"}
    /\ reqNo < limit
    /\ \E gen \in (IF parseCookies(cookie) = NoId THEN generateSessionId(sessFiles)
                   ELSE {NoId}) :
          LET id == IF parseCookies(cookie) = NoId THEN gen ELSE parseCookies(cookie)
          IN /\ env' = [mode |-> mode, debug |-> debug, cookie |-> cookie,
                        path |-> path, hadRecord |-> sessFiles[id].exists,
                        inc |-> FALSE]
             /\ SetProc(loadSession(NewProc, cookie, gen))
    /\ pc' = "entry"
    /\ reqNo' = reqNo + 1
    /\ fullScript' = <<>>
    /\ ip' = 1
    /\ output' = <<>>
    /\ useCache' = FALSE
    /\ err' = NoErr
    /\ executed' = <<>>
    /\ failure' = "none"
    /\ how' = "none"
    /\ UNCHANGED <<srcFile, cacheFile, clock, prev, lookups, extVars>>

\* evCompiled / evSandBox / evEval up to the start of the script: the
\* Content-Type header, the source (or its cache entry), the script object.
Entry ==
    /\ pc = "entry"
    /\ SetProc(CallHeader(Proc, ContentType))
    /\ IF env.path = "missing"
       THEN \* fs.statSync / fs.readFileSync throws, outside the inner try
            /\ pc' = "catchOuter"
            /\ err' = ErrorAt(<<"ENOENT">>, 0)
            /\ failure' = "missing"
            /\ UNCHANGED <<cacheFile, fullScript, useCache, lookups>>
       ELSE LET got == IF env.mode = "cached" THEN CacheGet(srcFile, cacheFile, clock)
                       ELSE [script |-> Compile(srcFile.content), useCache |-> FALSE,
                             cache |-> cacheFile]
            IN /\ cacheFile' = got.cache
               /\ fullScript' = got.script
               /\ useCache' = got.useCache
               /\ lookups' = IF env.mode = "cached"
                             THEN [done |-> TRUE, script |-> got.script, modified |-> FALSE]
                             ELSE lookups
               /\ IF SyntaxOK(got.script)
                  THEN /\ pc' = "run"
                       /\ UNCHANGED <<err, failure>>
                  ELSE /\ pc' = "catchInner"
                       /\ err' = ErrorAt(<<"Unexpected token">>, 0)
                       /\ failure' = "syntax"
    /\ UNCHANGED <<srcFile, clock, env, ip, output, executed, how, reqNo, prev, extVars>>

\* What executing one token of the script does: the process state after it,
\* the echoed text after it, the value it throws (NoErr: none).
Effect(tok, line) ==
    LET s == IF tok.k = "code" THEN tok.v[1] ELSE tok.k
        same == [r |-> Proc, out |-> output, thrown |-> NoErr, timers |-> timers]
    IN CASE s = "nl" -> same
         [] s = "lit" -> [same EXCEPT !.out = @ \o JsonUnescape(tok.v)]
         [] s = "echoB" -> [same EXCEPT !.out = @ \o <<"B">>]
         [] s = "inc" -> [same EXCEPT !.r.session.visits = @ + 1]
         [] s = "incIf" -> IF env.inc THEN [same EXCEPT !.r.session.visits = @ + 1]
                           ELSE same
         [] s = "setNaN" -> [same EXCEPT !.r.session.x = "NaN"]
         [] s = "throwErr" -> [same EXCEPT !.thrown = ErrorAt(Boom, line)]
         [] s = "throwStr" -> [same EXCEPT !.thrown = ThrownString]
         [] s = "setTimeout" -> [same EXCEPT !.timers = @ + 1]
         [] s \in {"header", "exit", "exitNum"} ->
              IF env.mode = "isolated"
              THEN \* the sandbox binds neither header nor exit
                   [same EXCEPT !.thrown = ErrorAt(<<s, " is not defined">>, line)]
              ELSE IF s = "header"
              THEN [same EXCEPT !.r = CallHeader(Proc, CustomHeader)]
              ELSE LET e == CallExit(Proc, IF s = "exit" THEN Text(<<>>) ELSE Number42)
                   IN [same EXCEPT !.r = e,
                                   !.thrown = IF e.status = "threw"
                                              THEN ErrorAt(<<"The chunk argument">>, line)
                                              ELSE NoErr]

\* script.runInContext / eval: the next token of the script.
Step ==
    /\ pc = "run"
    /\ ip <= Len(fullScript)
    /\ LET eff == Effect(fullScript[ip], LineOf(fullScript, ip))
       IN /\ output' = eff.out
          /\ timers' = eff.timers
          /\ executed' = Append(executed, ip)
          /\ IF eff.r.status = "exited"
             THEN /\ Terminate(eff.r, "template")
                  /\ UNCHANGED <<ip, err, failure>>
             ELSE /\ SetProc(eff.r)
                  /\ IF eff.thrown # NoErr
                     THEN /\ pc' = "catchInner"
                          /\ err' = eff.thrown
                          /\ failure' = "runtime"
                          /\ UNCHANGED ip
                     ELSE /\ pc' = "run"
                          /\ ip' = ip + 1
                          /\ UNCHANGED <<err, failure>>
                  /\ UNCHANGED <<how, prev>>
    /\ UNCHANGED <<srcFile, cacheFile, clock, env, fullScript, useCache, reqNo, lookups>>
    /\ UNCHANGED <<bodyVars, raceVars, keyVars>>

\* The script ran to its end: the entry function calls exit(output).
Finish ==
    /\ pc = "run"
    /\ ip > Len(fullScript)
    /\ Terminate(CallExit(Proc, Text(output)), "completed")
    /\ UNCHANGED <<srcFile, cacheFile, clock, env, runVarsButHow, reqNo, lookups, extVars>>


\* html_escape(undefined): str.replace is read from undefined.
EscapeTypeError == ErrorAt(<<"Cannot read properties of undefined">>, 0)

\* The catch block of evaluateEvalBlocks / evaluateSandBox /
\* evaluateJSSwithCache.  With debugMode it builds the error report, which
\* the entry function passes to exit; without, it throws to the entry
\* function's catch block.
CatchInner ==
    /\ pc = "catchInner"
    /\ IF env.debug
       THEN LET r == IF env.mode = "isolated" THEN Proc
                     ELSE CallHeader(CallHeader(Proc, ContentType), Status500)
                errorLine == IF env.mode = "direct" THEN err.line ELSE 0
            IN IF err.kind = "string"
               THEN \* html_escape(e.message) / html_escape(e.stack) throws
                    /\ SetProc(r)
                    /\ pc' = "catchOuter"
                    /\ err' = EscapeTypeError
                    /\ UNCHANGED <<how, prev>>
               ELSE /\ Terminate(CallExit(r, ReportPage(err, fullScript, errorLine)),
                                 "report")
                    /\ UNCHANGED err
       ELSE /\ pc' = "catchOuter"
            /\ err' = CASE env.mode = "direct" ->
                             ErrorAt(<<"Internal error: ">> \o
                                     (IF err.kind = "string" THEN <<"undefined">>
                                      ELSE err.message), 0)
                        [] env.mode = "isolated" ->
                             ErrorAt(<<"Internal error:">> \o
                                     (IF err.kind = "string" THEN <<"undefined">>
                                      ELSE err.message), 0)
                        [] env.mode = "cached" -> err
            /\ UNCHANGED <<respVars, sessFiles, how, prev>>
    /\ UNCHANGED <<srcFile, cacheFile, clock, env, fullScript, ip, output, useCache,
                   executed, failure, reqNo, lookups, extVars>>

\* The catch block of evEval / evSandBox / evCompiled.
CatchOuter ==
    /\ pc = "catchOuter"
    /\ LET r == CallHeader(CallHeader(Proc, ContentType), Status500)
       IN IF env.mode = "cached"
          THEN IF err.kind = "string"
               THEN \* html_escape(e.stack) throws out of the catch block
                    /\ SetProc(r)
                    /\ pc' = "uncaught"
                    /\ err' = EscapeTypeError
                    /\ UNCHANGED <<how, prev>>
               ELSE /\ Terminate(CallExit(r, PrePage(err)), "outer")
                    /\ UNCHANGED err
          ELSE /\ Terminate(CallExit(r, ExecErrorPage(err)), "outer")
               /\ UNCHANGED err
    /\ UNCHANGED <<srcFile, cacheFile, clock, env, fullScript, ip, output, useCache,
                   executed, failure, reqNo, lookups, extVars>>

\* process.on('uncaughtException')
Uncaught ==
    /\ pc = "uncaught"
    /\ Terminate(CallExit(CallHeader(CallHeader(Proc, ContentType), Status500),
                          FatalPage(err)), "fatal")
    /\ UNCHANGED <<srcFile, cacheFile, clock, env, runVarsButHow, reqNo, lookups, extVars>>

\* --------------------------------------------------------- POST requests
MultipartType  == "multipart/form-data; boundary=B"
UrlencodedType == "application/x-www-form-urlencoded"

NoRequest == [method |-> "GET", contentType |-> "", contentLength |-> 0,
              form |-> <<>>, body |-> <<>>]

\* parse() of a request: populateServerVars, loadSession, parseGetVars, and
\* readBody, which calls the callback at once unless the method is POST and
\* registers the stdin handlers otherwise.
StartPost(cookie, path, request, stream) ==
    /\ pc \in {"idle", "terminated"}
    /\ reqNo < 1
    /\ \E gen \in (IF parseCookies(cookie) = NoId THEN generateSessionId(sessFiles)
                   ELSE {NoId}) :
          LET id == IF parseCookies(cookie) = NoId THEN gen ELSE parseCookies(cookie)
          IN /\ env' = [mode |-> "cached", debug |-> FALSE, cookie |-> cookie,
                        path |-> path, hadRecord |-> sessFiles[id].exists,
                        inc |-> FALSE]
             /\ SetProc(loadSession(NewProc, cookie, gen))
    /\ pc' = IF request.method # "POST" THEN "entry" ELSE "reading"
    /\ reqNo' = reqNo + 1
    /\ fullScript' = <<>>
    /\ ip' = 1
    /\ output' = <<>>
    /\ useCache' = FALSE
    /\ err' = NoErr
    /\ executed' = <<>>
    /\ failure' = "none"
    /\ how' = "none"
    /\ req' = request
    /\ stdin' = [chunks |-> stream, ended |-> FALSE]
    /\ chunks' = <<>>
    /\ received' = 0
    /\ callbacks' = IF request.method # "POST" THEN 1 ELSE 0
    /\ _POST' = EmptyObject
    /\ _FILES' = EmptyObject
    /\ written' = <<>>
    /\ timers' = 0
    /\ UNCHANGED <<srcFile, cacheFile, clock, prev, lookups, uploads, raceVars, keyVars>>

\* The values Date.now() may take while the parts of a buffer are handled
\* one after the other: time passes, or not, before each part.
Times(n) ==
    {[i \in 1..n |-> clock + Cardinality({j \in late : j <= i})] : late \in SUBSET (1..n)}

\* process.stdin.on('data'): the chunk is kept; once the declared length has
\* been received the buffer is parsed as its content type says and the
\* callback runs, which enters evCompiled.  An exception of the parser leaves
\* the handler uncaught.
StdinData ==
    /\ pc = "reading"
    /\ stdin.chunks # <<>>
    /\ LET chunk  == Head(stdin.chunks)
           buffer == chunks \o chunk
           st0    == [post |-> _POST, files |-> _FILES, uploads |-> uploads,
                      written |-> written, thrown |-> NoErr]
       IN /\ stdin' = [stdin EXCEPT !.chunks = Tail(@)]
          /\ chunks' = buffer
          /\ received' = received + Len(chunk)
          /\ IF received + Len(chunk) >= req.contentLength
             THEN \E times \in Times(Len(PartsFrom(buffer,
                                   IndexOf(buffer, boundaryBuffer, 0)
                                   + Len(boundaryBuffer) + 2))) :
                    LET st == CASE req.contentType = MultipartType ->
                                       parseMultipartBody(st0, buffer, times)
                                [] req.contentType = UrlencodedType ->
                                       parseUrlEncodedBody(st0, buffer)
                                [] OTHER -> st0
                    IN /\ _POST' = st.post
                       /\ _FILES' = st.files
                       /\ uploads' = st.uploads
                       /\ written' = st.written
                       /\ clock' = IF req.contentType = MultipartType /\ times # <<>>
                                   THEN times[Len(times)] ELSE clock
                       /\ IF st.thrown # NoErr
                          THEN /\ pc' = "uncaught"
                               /\ err' = st.thrown
                               /\ failure' = "setup"
                               /\ UNCHANGED callbacks
                          ELSE /\ pc' = "entry"
                               /\ callbacks' = callbacks + 1
                               /\ UNCHANGED <<err, failure>>
             ELSE UNCHANGED <<_POST, _FILES, uploads, written, clock, pc, callbacks,
                              err, failure>>
    /\ UNCHANGED <<sessFiles, srcFile, cacheFile, env, respVars, fullScript, ip, output,
                   useCache, executed, how, reqNo, prev, lookups, req, timers,
                   raceVars, keyVars>>

\* process.stdin.on('end'): the callback runs if less than the declared
\* length was received.
StdinEnd ==
    /\ pc = "reading"
    /\ stdin.chunks = <<>>
    /\ ~stdin.ended
    /\ stdin' = [stdin EXCEPT !.ended = TRUE]
    /\ IF received < req.contentLength
       THEN /\ pc' = "entry"
            /\ callbacks' = callbacks + 1
       ELSE UNCHANGED <<pc, callbacks>>
    /\ UNCHANGED <<fsVars, env, respVars, runVars, reqNo, prev, lookups, req, chunks,
                   received, _POST, _FILES, uploads, written, timers, raceVars, keyVars>>

\* The input has ended and no handler is left to run: the process ends
\* without a call of exit.
Drained ==
    /\ pc = "reading"
    /\ stdin.ended
    /\ pc' = "drained"
    /\ UNCHANGED <<fsVars, env, respVars, runVars, reqNo, prev, lookups, extVars>>


\* ------------------------------------------------- the request model: Spec
\* One request against a fresh installation, in any execution mode, for
\* every template of one code block.
Sources ==
    {lit \o <<OPEN>> \o st \o <<CLOSE>> :
        lit \in {<<>>, <<"A">>}, st \in SeqsUpTo(Stmts, MaxStmts)}

InitCore(sources) ==
    /\ sessFiles = [id \in Ids |-> NoFile]
    /\ srcFile \in {[content |-> c, mtime |-> 0] : c \in sources}
    /\ cacheFile = NoCache
    /\ clock = 1
    /\ pc = "idle"
    /\ env = [mode |-> "cached", debug |-> FALSE, cookie |-> <<>>, path |-> "present",
              hadRecord |-> FALSE, inc |-> FALSE]
    /\ sessionId = NoId
    /\ session = EmptySession
    /\ headersSent = FALSE
    /\ headerBuffer = <<>>
    /\ bodyBuffer = <<>>
    /\ stdout = <<>>
    /\ fullScript = <<>>
    /\ ip = 1
    /\ output = <<>>
    /\ useCache = FALSE
    /\ err = NoErr
    /\ reqNo = 0
    /\ saveCount = 0
    /\ exitCalls = 0
    /\ lateHeaders = [calls |-> 0, changed |-> 0]
    /\ lateExit = [writes |-> 0, saves |-> 0]
    /\ executed = <<>>
    /\ failure = "none"
    /\ how = "none"
    /\ prev = [id |-> NoId, session |-> EmptySession, cookie |-> <<>>]
    /\ lookups = [done |-> FALSE, script |-> <<>>, modified |-> FALSE]

\* No request body, no concurrent processes, one source.
InitNoBody ==
    /\ req = NoRequest
    /\ stdin = [chunks |-> <<>>, ended |-> FALSE]
    /\ chunks = <<>>
    /\ received = 0
    /\ callbacks = 0
    /\ _POST = EmptyObject
    /\ _FILES = EmptyObject
    /\ uploads = EmptyObject
    /\ written = <<>>
    /\ timers = 0

InitNoRace ==
    /\ procs = <<>>
    /\ hist = <<>>

InitNoKeys ==
    /\ jssPaths = <<>>
    /\ cacheDir = <<>>
    /\ served = <<>>

InitWith(sources) == InitCore(sources) /\ InitNoBody /\ InitNoRace /\ InitNoKeys

Init == InitWith(Sources)

Request ==
    \E mode \in Modes, debug \in BOOLEAN, path \in {"present", "missing"},
       cookie \in {<<>>, <<[key |-> "PHPSESSID", value |-> <<"c", 1>>]>>} :
        StartRequest(mode, debug, cookie, path, 1)

Next ==
    \/ Request
    \/ Entry
    \/ Step
    \/ Finish
    \/ CatchInner
    \/ CatchOuter
    \/ Uncaught

Spec == Init /\ [][Next]_vars


\* ------------------------------------------- the session model: SpecSession
\* Requests served one after the other in the active (cached) mode, with any
\* cookie, for templates that change the session.
SessionSources ==
    {<<OPEN>> \o st \o <<CLOSE>> : st \in SeqsUpTo({"inc", "setNaN", "throwStr"}, MaxStmts)}

InitSession == InitWith(SessionSources)

SessionRequest ==
    \E cookie \in CookieHeaders : StartRequest("cached", FALSE, cookie, "present", MaxRequests)

NextSession ==
    \/ SessionRequest
    \/ Entry
    \/ Step
    \/ Finish
    \/ CatchInner
    \/ CatchOuter
    \/ Uncaught

SpecSession == InitSession /\ [][NextSession]_vars

\* ----------------------------------------------- the cache model: SpecCache
\* Requests in cached mode interleaved with edits of the source, changes of
\* its modification time and the passing of time.
CacheSources == {<<"A">>, <<OPEN, "echoB", CLOSE>>, <<OPEN, "throwStr", CLOSE>>}

InitCache == InitWith(CacheSources)

CacheRequest ==
    \E debug \in BOOLEAN :
        StartRequest("cached", debug, <<[key |-> "PHPSESSID", value |-> <<"c", 1>>]>>,
                     "present", MaxLookups)

\* The source file is written: new content, stamped with the current time.
Edit ==
    /\ pc \in {"idle", "terminated"}
    /\ \E c \in CacheSources : srcFile' = [content |-> c, mtime |-> clock]
    /\ lookups' = [lookups EXCEPT !.modified = TRUE]
    /\ UNCHANGED <<sessFiles, cacheFile, clock, pc, env, respVars, runVars, reqNo, prev,
                   extVars>>

\* The source file's modification time is set (utimes).
Touch ==
    /\ pc \in {"idle", "terminated"}
    /\ \E m \in 0..MaxClock : /\ m # srcFile.mtime
                              /\ srcFile' = [srcFile EXCEPT !.mtime = m]
    /\ lookups' = [lookups EXCEPT !.modified = TRUE]
    /\ UNCHANGED <<sessFiles, cacheFile, clock, pc, env, respVars, runVars, reqNo, prev,
                   extVars>>

Tick ==
    /\ pc \in {"idle", "terminated"}
    /\ clock < MaxClock
    /\ clock' = clock + 1
    /\ UNCHANGED <<sessFiles, srcFile, cacheFile, pc, env, respVars, runVars, reqNo,
                   prev, lookups, extVars>>

NextCache ==
    \/ CacheRequest
    \/ Entry
    \/ Step
    \/ Finish
    \/ CatchInner
    \/ CatchOuter
    \/ Uncaught
    \/ Edit
    \/ Touch
    \/ Tick

SpecCache == InitCache /\ [][NextCache]_vars

\* ------------------------------------- the compiler/executor model: SpecExec
\* One request for every source text of at most MaxSrcLen tokens.
ExecSources == SeqsUpTo({OPEN, CLOSE, "A", NL, "echoB", "throwStr"}, MaxSrcLen)

InitExec == InitWith(ExecSources)

ExecRequest ==
    \E mode \in Modes, debug \in BOOLEAN :
        StartRequest(mode, debug, <<[key |-> "PHPSESSID", value |-> <<"c", 1>>]>>,
                     "present", 1)

NextExec ==
    \/ ExecRequest
    \/ Entry
    \/ Step
    \/ Finish
    \/ CatchInner
    \/ CatchOuter
    \/ Uncaught

SpecExec == InitExec /\ [][NextExec]_vars


\* ----------------------------------------------- the body model: SpecBody
\* One POST request in the active mode for a template of plain text: every
\* form of at most MaxParts parts or MaxPairs pairs, delivered whole, in two
\* chunks, cut short, or with one byte more than declared.
FieldValues  == {<<"x">>, <<"x", CR, LF>>}
FileContents == {<<>>, <<"0">>, <<CR, LF, CR, LF, "0", CR, LF>>}

Parts ==
    {[name |-> n, file |-> FALSE, filename |-> "", content |-> c] :
        n \in FieldNames, c \in FieldValues}
    \cup {[name |-> n, file |-> TRUE, filename |-> f, content |-> c] :
            n \in FieldNames, f \in FileNames, c \in FileContents}

Pairs == {<<k, v>> : k \in {"a", "b"}, v \in {"1", "2"}}

PostRequests ==
    {[method |-> "POST", contentType |-> MultipartType,
      contentLength |-> Len(EncodeForm(f)), form |-> f, body |-> EncodeForm(f)] :
        f \in SeqsUpTo(Parts, MaxParts)}
    \cup {[method |-> "POST", contentType |-> UrlencodedType,
           contentLength |-> Len(EncodePairs(f)), form |-> f, body |-> EncodePairs(f)] :
            f \in SeqsUpTo(Pairs, MaxPairs)}

\* Where a body is cut: early, in the middle, late.
Cuts(body) == {1, Len(body) \div 2, Len(body) - 1} \cap (1..(Len(body) - 1))

Streams(body) ==
    {<<body \o <<"x">>>>, <<>>}
    \cup (IF body = <<>> THEN {} ELSE {<<body>>})
    \cup {<<SubSeq(body, 1, c), SubSeq(body, c + 1, Len(body))>> : c \in Cuts(body)}
    \cup {<<SubSeq(body, 1, c)>> : c \in Cuts(body)}

InitBody == InitWith({<<"A">>})

PostRequest ==
    /\ pc = "idle"
    /\ \E request \in PostRequests :
          \E stream \in Streams(request.body) :
              StartPost(<<[key |-> "PHPSESSID", value |-> <<"c", 1>>]>>, "present",
                        request, stream)

NextBody ==
    \/ PostRequest
    \/ StdinData
    \/ StdinEnd
    \/ Drained
    \/ Entry
    \/ Step
    \/ Finish
    \/ Uncaught

SpecBody == InitBody /\ [][NextBody]_vars


\* ---------------------------------------------- the setup model: SpecSetup
\* One POST request whose script may be missing, whose upload may fail to be
\* written, or whose template throws a value that is not an Error.
SetupParts ==
    {[name |-> "a", file |-> FALSE, filename |-> "", content |-> <<"x">>],
     [name |-> "a", file |-> TRUE, filename |-> "t", content |-> <<"0">>],
     [name |-> "b", file |-> TRUE, filename |-> LongName, content |-> <<"0">>]}

SetupRequests ==
    {[method |-> "POST", contentType |-> MultipartType,
      contentLength |-> Len(EncodeForm(f)), form |-> f, body |-> EncodeForm(f)] :
        f \in SeqsUpTo(SetupParts, MaxParts)}

InitSetup == InitWith({<<"A">>, <<OPEN, "throwStr", CLOSE>>})

SetupRequest ==
    /\ pc = "idle"
    /\ \E path \in {"present", "missing"}, request \in SetupRequests :
          \E stream \in Streams(request.body) :
              StartPost(<<[key |-> "PHPSESSID", value |-> <<"c", 1>>]>>, path, request,
                        stream)

NextSetup ==
    \/ SetupRequest
    \/ StdinData
    \/ StdinEnd
    \/ Entry
    \/ Step
    \/ Finish
    \/ CatchInner
    \/ CatchOuter
    \/ Uncaught

SpecSetup == InitSetup /\ [][NextSetup]_vars

\* ------------------------------------------------ the module API: SpecApi
\* A program that loads cgiNode.js and calls header, echo and exit itself,
\* in any order, without parse(): at most MaxCalls calls of header and echo.
ExitArgs == {Text(<<>>), Text(<<"X">>), Number42}

\* require('./cgiNode.js')
ApiRequire ==
    /\ pc = "idle"
    /\ pc' = "api"
    /\ SetProc(NewProc)
    /\ UNCHANGED <<srcFile, cacheFile, clock, env, runVars, reqNo, prev, lookups, extVars>>

ApiHeader ==
    /\ pc = "api"
    /\ lateHeaders.calls + Len(headerBuffer) + Len(bodyBuffer) < MaxCalls
    /\ \E str \in HeaderArgs : SetProc(CallHeader(Proc, str))
    /\ UNCHANGED <<srcFile, cacheFile, clock, pc, env, runVars, reqNo, prev, lookups,
                   extVars>>

ApiEcho ==
    /\ pc = "api"
    /\ lateHeaders.calls + Len(headerBuffer) + Len(bodyBuffer) < MaxCalls
    /\ \E str \in {<<"A">>, <<"B">>} : SetProc(echo(Proc, str))
    /\ UNCHANGED <<srcFile, cacheFile, clock, pc, env, runVars, reqNo, prev, lookups,
                   extVars>>

\* exit(msg): the process ends unless the write of msg throws.
ApiExit ==
    /\ pc = "api"
    /\ exitCalls < 2
    /\ \E msg \in ExitArgs :
          LET e == CallExit(Proc, msg)
          IN IF e.status = "exited"
             THEN Terminate(e, "api")
             ELSE /\ SetProc(e)
                  /\ UNCHANGED <<pc, how, prev>>
    /\ UNCHANGED <<srcFile, cacheFile, clock, env, runVarsButHow, reqNo, lookups, extVars>>

NextApi ==
    \/ ApiRequire
    \/ ApiHeader
    \/ ApiEcho
    \/ ApiExit

InitApi == InitWith({<<"A">>})

SpecApi == InitApi /\ [][NextApi]_vars

\* ------------------------------------------ concurrent requests: SpecRace
\* Two processes serve two requests for the same source at the same time, in
\* the active mode, both with the session cookie <<"c", 1>>.  Each call of
\* the file system is one step.  fs.writeFileSync is two: the file is opened,
\* which creates it or cuts it to length 0, and the data are written at
\* offset 0.
RaceProcs == {1, 2}
RaceId    == <<"c", 1>>
RaceSource == <<"A", OPEN, "incIf", CLOSE>>

\* The content of a file after data were written at offset 0: what it held
\* beyond the end of the data stays.
WriteAt0(data, content) == data \o SubSeq(content, Len(data) + 1, Len(content))

\* The same for the text of a session file.
WriteJsonAt0(data, content) ==
    IF JsonBytes(content) > JsonBytes(data)
    THEN data \o <<Torn(JsonBytes(content) - JsonBytes(data))>>
    ELSE data

\* script.runInContext(context) for a script without failing statements:
\* the session and the echoed text after the tokens from index i on.
RECURSIVE RunFrom(_, _, _, _)
RunFrom(script, i, st, inc) ==
    IF i > Len(script) THEN st
    ELSE LET tok == script[i]
             s == IF tok.k = "code" THEN tok.v[1] ELSE tok.k
             st1 == CASE s = "lit" -> [st EXCEPT !.output = @ \o JsonUnescape(tok.v)]
                      [] s = "echoB" -> [st EXCEPT !.output = @ \o <<"B">>]
                      [] s = "inc" -> [st EXCEPT !.session.visits = @ + 1]
                      [] s = "incIf" -> IF inc THEN [st EXCEPT !.session.visits = @ + 1]
                                        ELSE st
                      [] s = "setNaN" -> [st EXCEPT !.session.x = "NaN"]
                      [] OTHER -> st
         IN RunFrom(script, i + 1, st1, inc)

\* loadSession: the session file is read if it exists; text that does not
\* parse leaves _SESSION empty.
RLoad(p) ==
    /\ procs[p].pc = "load"
    /\ procs' = [procs EXCEPT ![p].pc = "stat",
                              ![p].session =
                                  loadSession([NewProc EXCEPT !.sessFiles = sessFiles],
                                              <<[key |-> "PHPSESSID", value |-> RaceId]>>,
                                              NoId).session]
    /\ UNCHANGED hist

\* fs.statSync(jssPath).mtimeMs
RStat(p) ==
    /\ procs[p].pc = "stat"
    /\ procs' = [procs EXCEPT ![p].pc = "check", ![p].jssMtime = srcFile.mtime]
    /\ UNCHANGED hist

\* fs.existsSync(cachePath) and fs.statSync(cachePath).mtimeMs >= jssMtime
RCheck(p) ==
    /\ procs[p].pc = "check"
    /\ procs' = [procs EXCEPT ![p].pc = IF /\ cacheFile.exists
                                           /\ cacheFile.mtime >= procs[p].jssMtime
                                        THEN "read" ELSE "compile"]
    /\ UNCHANGED hist

\* fs.readFileSync(cachePath, 'utf8')
RRead(p) ==
    /\ procs[p].pc = "read"
    /\ procs' = [procs EXCEPT ![p].pc = "run", ![p].fullScript = cacheFile.content,
                              ![p].useCache = TRUE]
    /\ UNCHANGED hist

\* fs.readFileSync(jssPath), parseJSSBlocks, blocks.join
RCompile(p) ==
    /\ procs[p].pc = "compile"
    /\ procs' = [procs EXCEPT ![p].pc = "open", ![p].fullScript = Compile(srcFile.content)]
    /\ UNCHANGED hist

RLocal(p) ==
    /\ \/ RLoad(p)
       \/ RStat(p)
       \/ RCheck(p)
       \/ RRead(p)
       \/ RCompile(p)
    /\ UNCHANGED <<fsVars, pc, env, respVars, runVars, reqNo, prev, lookups, bodyVars,
                   timers, keyVars>>

\* fs.writeFileSync(cachePath, fullScript): the file is opened.
RWriteOpen(p) ==
    /\ procs[p].pc = "open"
    /\ cacheFile' = [exists |-> TRUE, content |-> <<>>, mtime |-> clock]
    /\ procs' = [procs EXCEPT ![p].pc = "write"]
    /\ UNCHANGED <<sessFiles, srcFile, clock, hist>>
    /\ UNCHANGED <<pc, env, respVars, runVars, reqNo, prev, lookups, bodyVars, timers,
                   keyVars>>

\* fs.writeFileSync(cachePath, fullScript): the script is written.
RWriteData(p) ==
    /\ procs[p].pc = "write"
    /\ cacheFile' = [exists |-> TRUE,
                     content |-> WriteAt0(procs[p].fullScript, cacheFile.content),
                     mtime |-> clock]
    /\ procs' = [procs EXCEPT ![p].pc = "run"]
    /\ hist' = [hist EXCEPT !.cacheWrites = @ + 1]
    /\ UNCHANGED <<sessFiles, srcFile, clock>>
    /\ UNCHANGED <<pc, env, respVars, runVars, reqNo, prev, lookups, bodyVars, timers,
                   keyVars>>

\* new vm.Script(fullScript), script.runInContext(context), and exit(output)
\* up to its call of saveSession.
RRun(p) ==
    /\ procs[p].pc = "run"
    /\ LET st == RunFrom(procs[p].fullScript, 1,
                         [session |-> procs[p].session, output |-> <<>>], procs[p].inc)
       IN procs' = [procs EXCEPT ![p].pc = "saveOpen", ![p].session = st.session,
                                 ![p].output = st.output]
    /\ UNCHANGED <<fsVars, hist>>
    /\ UNCHANGED <<pc, env, respVars, runVars, reqNo, prev, lookups, bodyVars, timers,
                   keyVars>>

\* saveSession, fs.writeFileSync(sessionFile, ...): the file is opened.
RSaveOpen(p) ==
    /\ procs[p].pc = "saveOpen"
    /\ sessFiles' = [sessFiles EXCEPT ![RaceId] = [exists |-> TRUE, data |-> <<>>]]
    /\ procs' = [procs EXCEPT ![p].pc = "saveWrite"]
    /\ hist' = [hist EXCEPT !.loadedFirst = @ /\ \A q \in RaceProcs : procs[q].pc # "load"]
    /\ UNCHANGED <<srcFile, cacheFile, clock>>
    /\ UNCHANGED <<pc, env, respVars, runVars, reqNo, prev, lookups, bodyVars, timers,
                   keyVars>>

\* saveSession, fs.writeFileSync(sessionFile, ...): the text is written;
\* then process.exit(0).
RSaveWrite(p) ==
    /\ procs[p].pc = "saveWrite"
    /\ sessFiles' = [sessFiles EXCEPT ![RaceId].data =
                        WriteJsonAt0(JsonStringify(procs[p].session), @)]
    /\ procs' = [procs EXCEPT ![p].pc = "done"]
    /\ hist' = [hist EXCEPT !.lastSaver = p]
    /\ UNCHANGED <<srcFile, cacheFile, clock>>
    /\ UNCHANGED <<pc, env, respVars, runVars, reqNo, prev, lookups, bodyVars, timers,
                   keyVars>>

InitRace ==
    /\ InitCore({RaceSource})
    /\ InitNoBody
    /\ InitNoKeys
    /\ procs \in [RaceProcs -> {[pc |-> "load", inc |-> i, session |-> EmptySession,
                                 jssMtime |-> 0, fullScript |-> <<>>, useCache |-> FALSE,
                                 output |-> <<>>] : i \in BOOLEAN}]
    /\ hist = [cacheWrites |-> 0, loadedFirst |-> TRUE, lastSaver |-> 0]

NextRace ==
    \E p \in RaceProcs :
        \/ RLocal(p)
        \/ RWriteOpen(p)
        \/ RWriteData(p)
        \/ RRun(p)
        \/ RSaveOpen(p)
        \/ RSaveWrite(p)

SpecRace == InitRace /\ [][NextRace]_vars

\* ----------------------------------------------- cache file names: SpecKey
\* Source paths are sequences of the characters "/", "a", ">" and "?".
PathChars == {"/", "a", ">", "?"}

\* Buffer.from(jssPath): the byte of a character.
ByteOf(c) == CASE c = "/" -> 47 [] c = "a" -> 97 [] c = ">" -> 62 [] c = "?" -> 63

\* The base64 alphabet.
Base64Chars ==
    <<"A", "B", "C", "D", "E", "F", "G", "H", "I", "J", "K", "L", "M", "N", "O", "P",
      "Q", "R", "S", "T", "U", "V", "W", "X", "Y", "Z", "a", "b", "c", "d", "e", "f",
      "g", "h", "i", "j", "k", "l", "m", "n", "o", "p", "q", "r", "s", "t", "u", "v",
      "w", "x", "y", "z", "0", "1", "2", "3", "4", "5", "6", "7", "8", "9", "+", "/">>

\* toString('base64'): three bytes give four characters; one or two bytes at
\* the end are filled up with "=".
RECURSIVE Base64(_)
Base64(bytes) ==
    IF bytes = <<>> THEN <<>>
    ELSE LET b1 == bytes[1]
             b2 == IF Len(bytes) > 1 THEN bytes[2] ELSE 0
             b3 == IF Len(bytes) > 2 THEN bytes[3] ELSE 0
             c1 == Base64Chars[(b1 \div 4) + 1]
             c2 == Base64Chars[((b1 % 4) * 16 + (b2 \div 16)) + 1]
             c3 == IF Len(bytes) > 1 THEN Base64Chars[((b2 % 16) * 4 + (b3 \div 64)) + 1]
                   ELSE "="
             c4 == IF Len(bytes) > 2 THEN Base64Chars[(b3 % 64) + 1] ELSE "="
         IN <<c1, c2, c3, c4>>
            \o (IF Len(bytes) > 3 THEN Base64(SubSeq(bytes, 4, Len(bytes))) ELSE <<>>)

\* getCachePath: the base64 text of the path with "/", "+" and "=" replaced
\* by "_", and the suffix.
getCachePath(jssPath) ==
    LET b64  == Base64([i \in 1..Len(jssPath) |-> ByteOf(jssPath[i])])
        hash == [i \in 1..Len(b64) |-> IF b64[i] \in {"/", "+", "="} THEN "_" ELSE b64[i]]
    IN hash \o <<".cache.js">>

\* The absolute paths of at most MaxPathLen characters.
JssPaths == {p \in SeqsUpTo(PathChars, MaxPathLen) : p # <<>> /\ p[1] = "/"}

\* The source at a path: text that spells the path, never modified.
SourceAt(jssPath) == [content |-> jssPath, mtime |-> 0]

InitKey ==
    /\ InitCore({<<"A">>})
    /\ InitNoBody
    /\ InitNoRace
    /\ jssPaths \in JssPaths \X JssPaths
    /\ cacheDir = EmptyObject
    /\ served = [done |-> FALSE, path |-> <<>>, script |-> <<>>]

\* evaluateJSSwithCache for one of the paths, up to the script text.
KeyLookup ==
    \E i \in 1..2 :
        LET jssPath   == jssPaths[i]
            cachePath == getCachePath(jssPath)
            entry     == IF cachePath \in DOMAIN cacheDir THEN cacheDir[cachePath]
                         ELSE NoCache
            got       == CacheGet(SourceAt(jssPath), entry, clock)
        IN /\ cacheDir' = Put(cacheDir, cachePath, got.cache)
           /\ served' = [done |-> TRUE, path |-> jssPath, script |-> got.script]
           /\ UNCHANGED <<fsVars, pc, env, respVars, runVars, reqNo, prev, lookups,
                          bodyVars, timers, raceVars, jssPaths>>

NextKey == KeyLookup

SpecKey == InitKey /\ [][NextKey]_vars

\* ----------------------------------------------------- timers: SpecTimer
\* Templates whose code segment schedules timers, writes, exits or throws.
TimerSources ==
    {<<OPEN>> \o st \o <<CLOSE>> :
        st \in SeqsUpTo(TimerStmts \cup {"echoB", "exit", "throwStr", "exitNum"}, MaxStmts)}

InitTimer == InitWith(TimerSources)

TimerRequest ==
    \E mode \in Modes, debug \in BOOLEAN :
        StartRequest(mode, debug, <<[key |-> "PHPSESSID", value |-> <<"c", 1>>]>>,
                     "present", 1)

\* A timer callback runs when the event loop gets control, which is when
\* the call chain that started in parse's callback has returned.  Every end
\* of that chain is process.exit(0) inside exit, so the specification has no
\* step that runs a callback.
NextTimer ==
    \/ TimerRequest
    \/ Entry
    \/ Step
    \/ Finish
    \/ CatchInner
    \/ CatchOuter
    \/ Uncaught

SpecTimer == InitTimer /\ [][NextTimer]_vars

\* ------------------------------------------- the callback: SpecCallback
\* One request for a template of plain text: a GET request, or a POST
\* request with a form of at most MaxPairs pairs whose declared length is
\* the length of the body or 0 (CONTENT_LENGTH absent), delivered whole, in
\* two chunks, cut short, with one byte more, or not at all.
CallbackRequests ==
    {NoRequest}
    \cup UNION {{[method |-> "POST", contentType |-> UrlencodedType,
                   contentLength |-> n, form |-> f, body |-> EncodePairs(f)] :
                     n \in {0, Len(EncodePairs(f))}} :
                 f \in SeqsUpTo(Pairs, MaxPairs)}

InitCallback == InitWith({<<"A">>})

CallbackRequest ==
    /\ pc = "idle"
    /\ \E request \in CallbackRequests :
          \E stream \in (IF request.method = "POST" THEN Streams(request.body)
                         ELSE {<<>>}) :
              StartPost(<<[key |-> "PHPSESSID", value |-> <<"c", 1>>]>>, "present",
                        request, stream)

NextCallback ==
    \/ CallbackRequest
    \/ StdinData
    \/ StdinEnd
    \/ Drained
    \/ Entry
    \/ Step
    \/ Finish

SpecCallback == InitCallback /\ [][NextCallback]_vars

\* ------------------------------- requests and source edits: SpecStale
\* The two processes of SpecRace, and the source file modified while they
\* run.  Every modification happens at a later millisecond than everything
\* before it, so the new source is newer than any cache entry written up
\* to then; time also passes between the steps.
StaleSources == {RaceSource, <<OPEN, "echoB", CLOSE>>}

SourceEdit ==
    /\ clock < MaxClock
    /\ clock' = clock + 1
    /\ \E c \in StaleSources \ {srcFile.content} :
          srcFile' = [content |-> c, mtime |-> clock + 1]
    /\ UNCHANGED <<sessFiles, cacheFile, pc, env, respVars, runVars, reqNo, prev, lookups,
                   extVars>>

InitStale == InitRace

NextStale ==
    \/ NextRace
    \/ SourceEdit
    \/ Tick

SpecStale == InitStale /\ [][NextStale]_vars

\* ================================================================== claims
\* The chunks of kind k written to the output.
Chunks(k) == {i \in 1..Len(stdout) : stdout[i].k = k}

\* The body text written after the separator by exit(output).
BodyText == Flatten([i \in 1..Len(stdout) |->
                        IF stdout[i].k = "text" THEN stdout[i].v ELSE <<>>])

\* C1: the header block and the blank separator line are written at most
\* once, no header line is written after the separator, and a call of header
\* after the separator has been written leaves the header buffer, the body
\* buffer and the sent flag as they are.
C1_HeadersOnce ==
    /\ Cardinality(Chunks("sep")) <= 1
    /\ \A i \in Chunks("sep") : \A j \in Chunks("hdr") : j < i
    /\ headersSent <=> Chunks("sep") # {}
    /\ lateHeaders.changed = 0
    /\ headersSent =>
          \A h \in HeaderArgs : RespState(header(Proc, h)) = RespState(Proc)

\* A request ended in which header was called after the separator was written.
C1_Witness ==
    /\ pc = "terminated"
    /\ lateHeaders.calls > 0
    /\ Chunks("hdr") # {}

\* C2: a second call of exit writes nothing more to the output and does not
\* save the session.
C2_ExitIdempotent == lateExit = [writes |-> 0, saves |-> 0]

\* C3: on every path that ends a request the session is saved exactly once,
\* before the process terminates, and never more than once.
C3_SaveOnce ==
    /\ saveCount <= 1
    /\ pc = "terminated" =>
          /\ saveCount = 1
          /\ sessFiles[sessionId] = [exists |-> TRUE, data |-> JsonStringify(session)]
    /\ pc \in {"entry", "run", "catchInner", "catchOuter", "uncaught"} => saveCount = 0

\* A request ended in the handler of uncaught exceptions, the session saved.
C3_Witness ==
    /\ pc = "terminated"
    /\ how = "fatal"
    /\ saveCount = 1

\* C4: in cached mode the text a template echoed before it called exit() is
\* part of the response body that is written.
C4_ExitSendsEchoed ==
    (pc = "terminated" /\ how = "template" /\ env.mode = "cached") => BodyText = output

\* C9: in every execution mode, a code segment that throws under diagnostic
\* mode gives a response with the Status 500 header and a body holding the
\* numbered script with the failing line flagged.
C9_DiagnosticReport ==
    (pc = "terminated" /\ failure = "runtime" /\ env.debug) =>
        /\ \E i \in Chunks("hdr") : stdout[i].v.name = "Status"
        /\ \E i \in Chunks("page") :
              \E ln \in 1..Len(stdout[i].numbered) :
                  /\ ln = LineOf(fullScript, ip)
                  /\ stdout[i].numbered[ln].highlight

\* C10: without diagnostic mode, in every execution mode, the response to a
\* failing code segment holds neither the script source nor a stack trace.
C10_NoLeak ==
    (pc = "terminated" /\ failure = "runtime" /\ ~env.debug) =>
        \A i \in Chunks("page") : stdout[i].stack = <<>> /\ stdout[i].numbered = <<>>


\* The request that ended last had no cookie, and this one presents the
\* identifier that request was given.
Returning ==
    /\ pc = "entry"
    /\ reqNo >= 2
    /\ prev.cookie = <<>>
    /\ parseCookies(env.cookie) = prev.id

\* A request without a cookie is given an identifier no record existed under,
\* and its response sets the session cookie to it.
FreshIdAndCookie ==
    (pc = "terminated" /\ env.cookie = <<>>) =>
        /\ sessionId \in GenIds
        /\ ~env.hadRecord
        /\ \E i \in Chunks("hdr") : stdout[i].v = [SetCookie(sessionId) EXCEPT !.crlf = TRUE]

\* C5 as stated: a request that presents the identifier given to an earlier
\* request without a cookie starts with a session equal to the one that
\* request held when it ended, whatever that request stored.
C5_RoundTripExact ==
    /\ FreshIdAndCookie
    /\ Returning => session = prev.session

\* C5 as amended: the session a returning request starts with is the JSON
\* image of the one the earlier request held: equal for the values JSON
\* represents, with NaN read back as null.
C5_RoundTripJson ==
    /\ FreshIdAndCookie
    /\ Returning =>
          /\ session.visits = prev.session.visits
          /\ session.x = (IF prev.session.x = "NaN" THEN "null" ELSE prev.session.x)

\* A returning request has loaded a session the earlier request changed.
C5_Witness ==
    /\ Returning
    /\ prev.session.visits > 0
    /\ session.visits > 0

\* C6: a request whose session cookie names an identifier with no persisted
\* record is given a newly generated identifier, different from the cookie's.
C6_UnknownIdReplaced ==
    (pc # "idle" /\ parseCookies(env.cookie) # NoId /\ ~env.hadRecord) =>
        /\ sessionId # parseCookies(env.cookie)
        /\ sessionId \in GenIds

\* C7: a lookup returns the cache entry exactly when the entry exists with a
\* time stamp >= the source's modification time, and leaves the entry alone;
\* otherwise it compiles the source and replaces the entry, stamped with the
\* current time.  Two lookups with no modification between them give the same
\* script; a modification time past the entry's stamp forces a compilation.
C7_CacheRule ==
    [][(pc = "entry" /\ pc' # "entry" /\ env.mode = "cached" /\ env.path = "present") =>
         LET valid == cacheFile.exists /\ cacheFile.mtime >= srcFile.mtime
             fresh == Compile(srcFile.content)
         IN /\ useCache' = valid
            /\ valid => (fullScript' = cacheFile.content /\ cacheFile' = cacheFile)
            /\ ~valid => /\ fullScript' = fresh
                         /\ cacheFile' = [exists |-> TRUE, content |-> fresh,
                                          mtime |-> clock]
            /\ (lookups.done /\ ~lookups.modified) => fullScript' = lookups.script
            /\ (cacheFile.exists /\ srcFile.mtime > cacheFile.mtime) =>
                   (~useCache' /\ fullScript' = fresh)]_vars

\* A later request runs the script of the cache entry, written after the
\* source was edited.
C7_Witness ==
    /\ pc = "run"
    /\ useCache
    /\ reqNo >= 2
    /\ srcFile.mtime > 0
    /\ cacheFile.mtime >= srcFile.mtime

\* The text a source produces when every code segment succeeds: the text
\* outside <? ?> pairs as it stands, and "B" for every echoB inside.
RECURSIVE Render(_)
Render(src) ==
    IF src = <<>> THEN <<>>
    ELSE IF Head(src) = OPEN /\ \E j \in 2..Len(src) : src[j] = CLOSE
    THEN LET j == Min({n \in 2..Len(src) : src[n] = CLOSE})
         IN [n \in 1..Cardinality({m \in 2..(j - 1) : src[m] = "echoB"}) |-> "B"]
            \o Render(SubSeq(src, j + 1, Len(src)))
    ELSE <<Head(src)>> \o Render(Tail(src))

\* C8: the output of a successful execution is the literal texts and the
\* texts appended by code segments in source order; script tokens execute
\* in order, and once one fails none after it executes and no template
\* text reaches the response.
C8_SourceOrder ==
    /\ (pc = "terminated" /\ how = "completed") =>
          (output = Render(srcFile.content) /\ BodyText = output)
    /\ \A n \in 1..Len(executed) : executed[n] = n
    /\ failure = "runtime" => (executed # <<>> /\ executed[Len(executed)] = ip)
    /\ failure = "syntax" => executed = <<>>
    /\ (pc = "terminated" /\ failure # "none") => Chunks("text") = {}

\* A template with literal text and echoing code ran to its end.
C8_Witness ==
    /\ pc = "terminated"
    /\ how = "completed"
    /\ \E i, j \in 1..Len(output) : output[i] = "A" /\ output[j] = "B"
    /\ BodyText = output

\* A code segment failed with script text left after it.
C8_WitnessFailure ==
    /\ pc = "terminated"
    /\ failure = "runtime"
    /\ ip < Len(fullScript)


\* C11: a failure raised outside the execution of the template (an upload
\* that cannot be written while the body is parsed, a missing script, an
\* exception in the entry function's own catch block) ends in a response with
\* the Status 500 header before the separator, a page holding the escaped
\* stack of the error and none of the characters < and >, and the session
\* saved once.
C11_OuterFailure ==
    (pc = "terminated" /\ (failure \in {"setup", "missing"} \/ how = "fatal")) =>
        /\ \E i \in Chunks("hdr"), j \in Chunks("sep"), k \in Chunks("page") :
              /\ i < j /\ j < k
              /\ stdout[i].v = [Status500 EXCEPT !.crlf = TRUE]
              /\ stdout[k].stack = html_escape(StackOf(err))
              /\ \A n \in 1..Len(stdout[k].stack) : stdout[k].stack[n] \notin {"<", ">"}
        /\ Cardinality(Chunks("page")) = 1
        /\ saveCount = 1
        /\ sessFiles[sessionId] = [exists |-> TRUE, data |-> JsonStringify(session)]

\* The upload of a part could not be written: the handler of uncaught
\* exceptions ended the request.
C11_Witness ==
    /\ pc = "terminated"
    /\ failure = "setup"
    /\ how = "fatal"
    /\ \E k \in Chunks("page") : "&lt;" \in {stdout[k].stack[n] : n \in 1..Len(stdout[k].stack)}

\* The request's body was received as declared and parsed, and the callback
\* of readBody has run.
ParsedWhole(type) ==
    /\ req.contentType = type
    /\ callbacks = 1
    /\ chunks = req.body

\* Part i of the form is the last one of its kind with its field name.
LastOfName(i) ==
    \A j \in (i + 1)..Len(req.form) :
        req.form[j].file # req.form[i].file \/ req.form[j].name # req.form[i].name

\* C12: after a well-formed multipart body was parsed, for every file part
\* the file at its descriptor's storage location holds the part's bytes and
\* the descriptor's size is their count, and every part without a file name
\* is a body field holding its content without the CRLF that ends the part.
C12_FileRoundTrip ==
    ParsedWhole(MultipartType) =>
        \A i \in 1..Len(req.form) :
            LET part == req.form[i]
            IN LastOfName(i) =>
                  IF part.file
                  THEN /\ part.name \in DOMAIN _FILES
                       /\ uploads[_FILES[part.name].tmp_name] = part.content
                       /\ _FILES[part.name].size = Len(part.content)
                  ELSE /\ part.name \in DOMAIN _POST
                       /\ _POST[part.name] = String(part.content)

\* C13: after a urlencoded body was parsed, the body field of every key is
\* the string value of the key's last occurrence.
C13_LastOccurrenceWins ==
    ParsedWhole(UrlencodedType) =>
        \A i \in 1..Len(req.form) :
            (\A j \in (i + 1)..Len(req.form) : req.form[j][1] # req.form[i][1]) =>
                /\ <<req.form[i][1]>> \in DOMAIN _POST
                /\ _POST[<<req.form[i][1]>>] = String(<<req.form[i][2]>>)

\* The body fields the parser selected by the content type finds in a buffer.
FieldsOf(buffer) ==
    LET st0 == [post |-> EmptyObject, files |-> EmptyObject, uploads |-> uploads,
                written |-> <<>>, thrown |-> NoErr]
    IN IF req.contentType = MultipartType
       THEN parseMultipartBody(st0, buffer, [i \in 1..Len(buffer) |-> clock]).post
       ELSE parseUrlEncodedBody(st0, buffer).post

\* C14: when the input ends before the declared length was received, the
\* bytes received are parsed as the content type says, no error is raised
\* and the request goes on to execute the template.
C14_TruncatedParsed ==
    (req.method = "POST" /\ stdin.ended /\ received < req.contentLength) =>
        /\ _POST = FieldsOf(chunks)
        /\ failure = "none"
        /\ pc \in {"entry", "run", "terminated"}

\* C18: any two uploads written went to different storage paths.
C18_DistinctPaths ==
    \A i, j \in 1..Len(written) : i # j => written[i].path # written[j].path

\* C15: the output of a single call exit(extraBody) is the buffered header
\* lines, the separator, the text buffered by echo and then extraBody.
C15_BodyBeforeExtra ==
    (pc = "terminated" /\ how = "api" /\ exitCalls = 1) =>
        \E extraBody \in {m \in ExitArgs : IsString(m)} :
            stdout = HeaderBlock(headerBuffer) \o <<Sep>>
                     \o (IF bodyBuffer # <<>> THEN <<Text(bodyBuffer)>> ELSE <<>>)
                     \o (IF IsTruthy(extraBody) THEN <<extraBody>> ELSE <<>>)

\* C16: when two requests with the same session identifier have both loaded
\* the session before either saves, then after both have ended the session
\* file holds the session of the request whose save completed last.
C16_LastWriterWins ==
    (hist.loadedFirst /\ \A p \in RaceProcs : procs[p].pc = "done") =>
        sessFiles[RaceId] =
            [exists |-> TRUE, data |-> JsonStringify(procs[hist.lastSaver].session)]

\* C17: once a write of the cache entry has completed the entry holds the
\* compiled form of the source, and the script every request executes is
\* the compiled form of the source.
C17_BenignOverwrite ==
    /\ hist.cacheWrites > 0 => cacheFile.content = Compile(srcFile.content)
    /\ \A p \in RaceProcs :
          procs[p].pc \in {"run", "saveOpen", "saveWrite", "done"} =>
              procs[p].fullScript = Compile(srcFile.content)

\* C19: two source paths with the same cache file are the same path, and
\* the script a lookup returns is the compiled form of the source looked up.
C19_KeyCollisionFree ==
    /\ getCachePath(jssPaths[1]) = getCachePath(jssPaths[2]) => jssPaths[1] = jssPaths[2]
    /\ served.done => served.script = Compile(SourceAt(served.path).content)

\* C20: when the process has terminated, every timer callback the template
\* scheduled has run: none is still pending.
C20_TimersRun == pc = "terminated" => timers = 0

\* C21: the callback given to parse is called at most once, and when the
\* process has ended it has been called: exactly once for every request.
C21_CallbackOnce ==
    /\ callbacks <= 1
    /\ pc \in {"terminated", "drained"} => callbacks = 1

\* C22: while no write of the cache file is under way, a cache file that
\* the test of evaluateJSSwithCache accepts for the source file as it is now
\* holds the compiled form of the source file's content: a request that
\* takes its script from the cache executes the current source.
C22_CacheIsCurrent ==
    (/\ \A q \in RaceProcs : procs[q].pc # "write"
     /\ cacheFile.exists
     /\ cacheFile.mtime >= srcFile.mtime)
        => cacheFile.content = Compile(srcFile.content)

=============================================================================
